---- MODULE Spec2Model ----
(***************************************************************************)
(* Model of scripts/sync-meets.js: the address and date-range parsers, the *)
(* record transformer, the fetcher, the retry wrapper and the sequential   *)
(* check-then-insert sync loop against the store.                          *)
(*                                                                         *)
(* JavaScript strings are modelled as sequences of tokens.  The tokens     *)
(* "," " " "/" "\\" "-" stand for those single characters; every other     *)
(* token is a run of characters that contains none of them at a place      *)
(* where the code's split/replace patterns could match (a word such as     *)
(* "Texas" or "1 Main St").  A JavaScript value is a tagged record: Null   *)
(* for null/undefined, Str(s) for a string.                                *)
(***************************************************************************)
EXTENDS Integers, Sequences, FiniteSets, TLC

VARIABLES
    \* ---- the parser harness (SpecParse) ----
    meet,            \* the raw listing handed to the parsers
    ppc,             \* position of the parser harness
    parsedAddress,   \* result of parseAddress(meet.address)
    parsedDates,     \* result of parseDateRange(meet.subtitle)
    transformed,     \* result of transformMeetsData([meet])
    \* ---- retry() ----
    maxRetries,      \* the maxRetries argument (3 when defaulted)
    script,          \* harness only: outcome of the k-th invocation of fn
    retries,         \* the local variable `retries`
    invocations,     \* number of times fn was invoked
    delays,          \* the backoff waits performed, in ms, in order
    retryStatus,     \* "running", "returned" or "threw"
    retryResult,     \* value returned / error thrown by retry
    \* ---- syncMeets() ----
    run,             \* which invocation of the script this is
    pc,              \* position inside syncMeets
    upstream,        \* the listing collection the API serves (unchanged)
    fetchFailures,   \* fetchMeets invocations whose request failed
    transformedMeets,\* the local `transformedMeets`
    idx,             \* position of the for-of loop (1-based)
    insertCount,
    skippedCount,
    store,           \* names of the rows of table `meets`
    storeAtStart,    \* the store as the current run found it
    ops,             \* store operations issued by this run, in order
    exitCode         \* process exit code, -1 while running

parseVars == <<meet, ppc, parsedAddress, parsedDates, transformed>>
retryVars == <<maxRetries, script, retries, invocations, delays, retryStatus, retryResult>>
syncVars  == <<run, pc, upstream, fetchFailures, transformedMeets, idx, insertCount,
               skippedCount, store, storeAtStart, ops, exitCode>>
vars == <<parseVars, retryVars, syncVars>>

(***************************************************************************)
(* JavaScript values and string primitives                                 *)
(***************************************************************************)
Null == [t |-> "null"]

Str(s) == [t |-> "str", s |-> s]

IsStr(v) == v.t = "str"

\* JavaScript truthiness of a string-or-null value: null and "" are falsy.
Truthy(v) == IsStr(v) /\ v.s # <<>>

\* a || b
OrElse(a, b) == IF Truthy(a) THEN a ELSE b

RECURSIVE SplitFrom(_, _, _, _)
SplitFrom(s, sep, i, cur) ==
    IF i > Len(s) THEN <<cur>>
    ELSE IF i + Len(sep) - 1 <= Len(s) /\ SubSeq(s, i, i + Len(sep) - 1) = sep
         THEN <<cur>> \o SplitFrom(s, sep, i + Len(sep), <<>>)
         ELSE SplitFrom(s, sep, i + 1, Append(cur, s[i]))

\* String.prototype.split(sep) for a non-empty literal separator.
Split(s, sep) == SplitFrom(s, sep, 1, <<>>)

RECURSIVE ReplaceFrom(_, _, _, _)
ReplaceFrom(s, pat, rep, i) ==
    IF i > Len(s) THEN <<>>
    ELSE IF i + Len(pat) - 1 <= Len(s) /\ SubSeq(s, i, i + Len(pat) - 1) = pat
         THEN rep \o ReplaceFrom(s, pat, rep, i + Len(pat))
         ELSE <<s[i]>> \o ReplaceFrom(s, pat, rep, i + 1)

\* String.prototype.replace(/pat/g, rep) for a literal pattern.
ReplaceAll(s, pat, rep) == ReplaceFrom(s, pat, rep, 1)

RECURSIVE SkipWs(_, _)
SkipWs(s, j) == IF j <= Len(s) /\ s[j] = " " THEN SkipWs(s, j + 1) ELSE j

RECURSIVE CollapseFrom(_, _)
CollapseFrom(s, i) ==
    IF i > Len(s) THEN <<>>
    ELSE IF s[i] = "," /\ SkipWs(s, i + 1) <= Len(s) /\ s[SkipWs(s, i + 1)] = ","
         THEN <<",">> \o CollapseFrom(s, SkipWs(s, i + 1) + 1)
         ELSE <<s[i]>> \o CollapseFrom(s, i + 1)

\* address.replace(/,\s*,/g, ','): matches are found left to right and do
\* not overlap, so ",,," becomes ",,".
CollapseCommas(s) == CollapseFrom(s, 1)

(***************************************************************************)
(* Token classes: what the code's regular expressions see in a word token  *)
(***************************************************************************)
USA == "United States of America"

\* tokens whose first character is a digit: /^\d/
DigitStartTokens ==
    {"7051 Commerce Circle", "94588", "1201 Houston Street", "76102",
     "9385 Washington Blvd.", "20723", "8439 NE Columbia Ct", "1 Main St",
     "06", "08", "09", "2025"}

\* tokens in which /Suite|Unit|Apt|#/i matches somewhere ("United" has "Unit")
UnitTokens == {"Suite B-C", "Suite 5", USA}

StartsWithDigit(part) == part # <<>> /\ part[1] \in DigitStartTokens

HasUnitDesignator(part) == \E k \in 1..Len(part) : part[k] \in UnitTokens

(***************************************************************************)
(* parseAddress                                                            *)
(***************************************************************************)
Unknown == Str(<<"Unknown">>)

\* the object literal of both fallback returns; `address` is the variable
\* as it stands at that point
Degraded(address) ==
    [venueName |-> Str(<<>>), street |-> address,
     city |-> Unknown, state |-> Unknown, zip |-> Unknown]

\* parts.findIndex(part => part === "United States of America"), 0-based
FindCountry(parts) ==
    IF \E k \in 1..Len(parts) : parts[k] = <<USA>>
    THEN (CHOOSE k \in 1..Len(parts) :
             /\ parts[k] = <<USA>>
             /\ \A j \in 1..(k - 1) : parts[j] # <<USA>>) - 1
    ELSE -1

\* parts[i] with the code's 0-based index
At(parts, i) == parts[i + 1]

ParseParts(parts) ==
    LET zip == At(parts, Len(parts) - 1)
        stateIndex == FindCountry(parts)
        state == IF stateIndex > 0 THEN At(parts, stateIndex - 1)
                                   ELSE At(parts, Len(parts) - 2)
        named == ~StartsWithDigit(At(parts, 0))
        suite == named /\ Len(parts) >= 6 /\ HasUnitDesignator(At(parts, 2))
        venueName == IF named THEN At(parts, 0) ELSE <<>>
        street == IF ~named THEN At(parts, 0)
                  ELSE IF suite THEN At(parts, 1) \o <<",", " ">> \o At(parts, 2)
                  ELSE At(parts, 1)
        city == IF ~named THEN At(parts, 1)
                ELSE IF suite THEN At(parts, 3)
                ELSE At(parts, 2)
    IN  [venueName |-> Str(venueName), street |-> Str(street),
         city |-> Str(city), state |-> Str(state), zip |-> Str(zip)]

\* variant: the shape test admits three parts
parseAddress_ThreeParts(address) ==
    IF ~IsStr(address)
    THEN Degraded(address)
    ELSE LET collapsed == CollapseCommas(address.s)
             parts == Split(collapsed, <<",", " ">>)
         IN  IF Len(parts) >= 3 THEN ParseParts(parts)
                                ELSE Degraded(Str(collapsed))

parseAddress(address) ==
    IF ~IsStr(address)
    THEN Degraded(address)             \* address.replace throws; catch block
    ELSE LET collapsed == CollapseCommas(address.s)
             parts == Split(collapsed, <<",", " ">>)
         IN  IF Len(parts) >= 4 THEN ParseParts(parts)
                                ELSE Degraded(Str(collapsed))

(***************************************************************************)
(* parseDateRange                                                          *)
(***************************************************************************)
\* `${parts[i]}` with the code's 0-based index: a missing element prints as
\* "undefined"
Interp(parts, i) == IF i + 1 <= Len(parts) THEN parts[i + 1] ELSE <<"undefined">>

IsoDate(parts) ==
    Interp(parts, 2) \o <<"-">> \o Interp(parts, 0) \o <<"-">> \o Interp(parts, 1)

parseDateRange(dateRange) ==
    IF ~IsStr(dateRange)
    THEN [startDate |-> Null, endDate |-> Null]   \* replace throws; catch block
    ELSE LET cleanDateRange == ReplaceAll(dateRange.s, <<"\\", "/">>, <<"/">>)
             dates == Split(cleanDateRange, <<" ", "-", " ">>)
             startParts == Split(dates[1], <<"/">>)
             endParts == IF Len(dates) >= 2 /\ dates[2] # <<>>
                         THEN Split(dates[2], <<"/">>)
                         ELSE startParts
         IN  [startDate |-> Str(IsoDate(startParts)),
              endDate |-> Str(IsoDate(endParts))]

(***************************************************************************)
(* mapTimeZone, getStateAbbreviation                                       *)
(***************************************************************************)
ChicagoStates ==
    {"Alabama", "Arkansas", "Illinois", "Iowa", "Kansas", "Louisiana",
     "Minnesota", "Mississippi", "Missouri", "Nebraska", "North Dakota",
     "Oklahoma", "South Dakota", "Tennessee", "Texas", "Wisconsin"}

LosAngelesStates == {"California", "Nevada", "Oregon", "Washington"}

DenverStates == {"Colorado", "Idaho", "Montana", "New Mexico", "Utah", "Wyoming"}

NewYorkStates ==
    {"Connecticut", "Delaware", "Florida", "Georgia", "Indiana", "Kentucky",
     "Maine", "Maryland", "Massachusetts", "Michigan", "New Hampshire",
     "New Jersey", "New York", "North Carolina", "Ohio", "Pennsylvania",
     "Rhode Island", "South Carolina", "Vermont", "Virginia", "West Virginia",
     "District of Columbia"}

\* timeZoneMap[state] || 'America/New_York'; a key is a single word token
mapTimeZone(state) ==
    LET key == IF IsStr(state) /\ Len(state.s) = 1 THEN state.s[1] ELSE ""
    IN  Str(<< CASE key \in ChicagoStates -> "America/Chicago"
                 [] key = "Alaska" -> "America/Anchorage"
                 [] key = "Arizona" -> "America/Phoenix"
                 [] key \in LosAngelesStates -> "America/Los_Angeles"
                 [] key \in DenverStates -> "America/Denver"
                 [] key \in NewYorkStates -> "America/New_York"
                 [] key = "Hawaii" -> "Pacific/Honolulu"
                 [] OTHER -> "America/New_York" >>)

stateMap ==
    ("Alabama" :> "AL") @@ ("Alaska" :> "AK") @@ ("Arizona" :> "AZ") @@
    ("Arkansas" :> "AR") @@ ("California" :> "CA") @@ ("Colorado" :> "CO") @@
    ("Connecticut" :> "CT") @@ ("Delaware" :> "DE") @@ ("Florida" :> "FL") @@
    ("Georgia" :> "GA") @@ ("Hawaii" :> "HI") @@ ("Idaho" :> "ID") @@
    ("Illinois" :> "IL") @@ ("Indiana" :> "IN") @@ ("Iowa" :> "IA") @@
    ("Kansas" :> "KS") @@ ("Kentucky" :> "KY") @@ ("Louisiana" :> "LA") @@
    ("Maine" :> "ME") @@ ("Maryland" :> "MD") @@ ("Massachusetts" :> "MA") @@
    ("Michigan" :> "MI") @@ ("Minnesota" :> "MN") @@ ("Mississippi" :> "MS") @@
    ("Missouri" :> "MO") @@ ("Montana" :> "MT") @@ ("Nebraska" :> "NE") @@
    ("Nevada" :> "NV") @@ ("New Hampshire" :> "NH") @@ ("New Jersey" :> "NJ") @@
    ("New Mexico" :> "NM") @@ ("New York" :> "NY") @@
    ("North Carolina" :> "NC") @@ ("North Dakota" :> "ND") @@ ("Ohio" :> "OH") @@
    ("Oklahoma" :> "OK") @@ ("Oregon" :> "OR") @@ ("Pennsylvania" :> "PA") @@
    ("Rhode Island" :> "RI") @@ ("South Carolina" :> "SC") @@
    ("South Dakota" :> "SD") @@ ("Tennessee" :> "TN") @@ ("Texas" :> "TX") @@
    ("Utah" :> "UT") @@ ("Vermont" :> "VT") @@ ("Virginia" :> "VA") @@
    ("Washington" :> "WA") @@ ("West Virginia" :> "WV") @@
    ("Wisconsin" :> "WI") @@ ("Wyoming" :> "WY") @@
    ("District of Columbia" :> "DC")

\* stateMap[stateName] || stateName
getStateAbbreviation(stateName) ==
    IF IsStr(stateName) /\ Len(stateName.s) = 1 /\ stateName.s[1] \in DOMAIN stateMap
    THEN Str(<<stateMap[stateName.s[1]]>>)
    ELSE stateName

(***************************************************************************)
(* transformMeetsData                                                      *)
(***************************************************************************)
\* the callback of meetsData.map
TransformOne(m) ==
    LET a == parseAddress(m.address)
        d == parseDateRange(m.subtitle)
    IN  [name |-> m.name,
         venue_name |-> OrElse(a.venueName, m.name),
         venue_street |-> a.street,
         venue_city |-> a.city,
         venue_state |-> getStateAbbreviation(a.state),
         venue_zip |-> a.zip,
         time_zone |-> mapTimeZone(a.state),
         start_date |-> d.startDate,
         end_date |-> d.endDate,
         status |-> "upcoming",
         external_id |-> m.id]

\* the callback of .filter
HasDates(rec) == Truthy(rec.start_date) /\ Truthy(rec.end_date)

transformMeetsData(meetsData) ==
    SelectSeq([k \in 1..Len(meetsData) |-> TransformOne(meetsData[k])], HasDates)

(***************************************************************************)
(* Inputs of the parser harness                                            *)
(***************************************************************************)
MaxParts == 4

MaxComps == 3

CommaSpace == <<",", " ">>

Dash == <<" ", "-", " ">>

RECURSIVE JoinFrom(_, _, _)
JoinFrom(ps, ss, k) ==
    IF k > Len(ps) THEN <<>>
    ELSE IF k = Len(ps) THEN ps[k]
    ELSE ps[k] \o ss[k] \o JoinFrom(ps, ss, k + 1)

\* parts ps joined by the separators ss (ss[k] between ps[k] and ps[k+1])
Join(ps, ss) == JoinFrom(ps, ss, 1)

PartChoices == {<<>>, <<"Gym">>, <<"1 Main St">>, <<"Texas">>, <<USA>>}

SepChoices == {CommaSpace, <<",", ",", " ">>}

GenAddresses ==
    UNION { { Join(ps, ss) : ps \in [1..n -> PartChoices],
                             ss \in [1..(n - 1) -> SepChoices] } : n \in 1..MaxParts }

\* the addresses quoted in the comments of parseAddress
ExampleAddresses ==
    { Join(<< <<"7051 Commerce Circle">>, <<"Pleasanton">>, <<"California">>,
              <<USA>>, <<"94588">> >>, [k \in 1..4 |-> CommaSpace]),
      Join(<< <<"Fort Worth Convention Center">>, <<"1201 Houston Street">>,
              <<"Fort Worth">>, <<"Texas">>, <<USA>>, <<"76102">> >>,
           [k \in 1..5 |-> CommaSpace]),
      Join(<< <<"CrossFit Revamped">>, <<"9385 Washington Blvd.">>, <<"Suite B-C">>,
              <<"Laurel">>, <<"Maryland">>, <<USA>>, <<"20723">> >>,
           [k \in 1..6 |-> CommaSpace]),
      <<"8439 NE Columbia Ct", ",", ",", " ", "Portland">> }

CompChoices == {"06", "TBD"}

SlashChoices == {<<"/">>, <<"\\", "/">>}

GenDateTokens ==
    UNION { { Join([k \in 1..n |-> <<cs[k]>>], [k \in 1..(n - 1) |-> sl]) :
                cs \in [1..n -> CompChoices], sl \in SlashChoices } : n \in 0..MaxComps }

ExampleSubtitle ==
    <<"06", "\\", "/", "08", "\\", "/", "2025", " ", "-", " ",
      "06", "\\", "/", "08", "\\", "/", "2025">>

GenSubtitles ==
    GenDateTokens \cup { a \o Dash \o b : a \in GenDateTokens, b \in GenDateTokens }
                  \cup {ExampleSubtitle}

ExampleName == Str(<<"Spring Open">>)

ParseInputs ==
    { [id |-> 1, name |-> ExampleName, address |-> a, subtitle |-> Str(ExampleSubtitle)] :
        a \in {Str(x) : x \in GenAddresses \cup ExampleAddresses} \cup {Null} }
    \cup
    { [id |-> 1, name |-> ExampleName,
       address |-> Str(<<"8439 NE Columbia Ct", ",", ",", " ", "Portland">>),
       subtitle |-> d] :
        d \in {Str(x) : x \in GenSubtitles} \cup {Null} }

(***************************************************************************)
(* The parser harness: each function applied to a drawn listing            *)
(***************************************************************************)
ParseIdle ==
    /\ meet = Null /\ ppc = "off" /\ parsedAddress = Null
    /\ parsedDates = Null /\ transformed = <<>>

CallParseAddress ==
    /\ ppc = "input"
    /\ parsedAddress' = parseAddress(meet.address)
    /\ ppc' = "address"
    /\ UNCHANGED <<meet, parsedDates, transformed, retryVars, syncVars>>

CallParseDateRange ==
    /\ ppc = "address"
    /\ parsedDates' = parseDateRange(meet.subtitle)
    /\ ppc' = "dates"
    /\ UNCHANGED <<meet, parsedAddress, transformed, retryVars, syncVars>>

CallTransform ==
    /\ ppc = "dates"
    /\ transformed' = transformMeetsData(<<meet>>)
    /\ ppc' = "done"
    /\ UNCHANGED <<meet, parsedAddress, parsedDates, retryVars, syncVars>>

(***************************************************************************)
(* retry                                                                   *)
(***************************************************************************)
DefaultMaxRetries == 3

MaxRetriesArg == 4

\* variant: the exponent starts at 0
Backoff_FromZero(n) == (2 ^ (n - 1)) * 1000

\* Math.pow(2, retries) * 1000
Backoff(n) == (2 ^ n) * 1000

RetryIdle ==
    /\ maxRetries = 0 /\ script = <<>> /\ retries = 0 /\ invocations = 0
    /\ delays = <<>> /\ retryStatus = "off" /\ retryResult = Null

\* retry(fn, n) is entered: let retries = 0
RetryEnter(n) ==
    /\ maxRetries = n /\ retries = 0 /\ invocations = 0
    /\ delays = <<>> /\ retryStatus = "running" /\ retryResult = Null

\* variant: the exhaustion test is `retries > maxRetries`
RetryStep_LateExhaustion(outcome) ==
    IF retries < maxRetries
    THEN /\ invocations' = invocations + 1
         /\ IF ~outcome.threw
            THEN /\ retryStatus' = "returned"
                 /\ retryResult' = outcome.value
                 /\ UNCHANGED <<retries, delays>>
            ELSE /\ retries' = retries + 1
                 /\ IF retries + 1 > maxRetries
                    THEN /\ retryStatus' = "threw"
                         /\ retryResult' = outcome.value
                         /\ UNCHANGED delays
                    ELSE /\ delays' = Append(delays, Backoff(retries + 1))
                         /\ UNCHANGED <<retryStatus, retryResult>>
    ELSE /\ retryStatus' = "returned"
         /\ retryResult' = Null
         /\ UNCHANGED <<retries, invocations, delays>>

\* One evaluation of the while condition and, when it holds, one pass
\* through the loop body; outcome is what `await fn()` does on that pass:
\* [threw |-> FALSE, value |-> v] or [threw |-> TRUE, value |-> e].
RetryStep(outcome) ==
    IF retries < maxRetries
    THEN /\ invocations' = invocations + 1
         /\ IF ~outcome.threw
            THEN /\ retryStatus' = "returned"          \* return await fn()
                 /\ retryResult' = outcome.value
                 /\ UNCHANGED <<retries, delays>>
            ELSE /\ retries' = retries + 1             \* catch (error)
                 /\ IF retries + 1 >= maxRetries
                    THEN /\ retryStatus' = "threw"     \* throw error
                         /\ retryResult' = outcome.value
                         /\ UNCHANGED delays
                    ELSE /\ delays' = Append(delays, Backoff(retries + 1))
                         /\ UNCHANGED <<retryStatus, retryResult>>
    ELSE /\ retryStatus' = "returned"                  \* falls off the loop
         /\ retryResult' = Null                        \* returns undefined
         /\ UNCHANGED <<retries, invocations, delays>>

\* the k-th invocation of the scripted operation
ScriptedCall(k) ==
    IF script[k] THEN [threw |-> FALSE, value |-> [t |-> "value", call |-> k]]
                 ELSE [threw |-> TRUE, value |-> [t |-> "error", call |-> k]]

\* harness: retry(fn, maxRetries) driving a scripted operation
RetryScripted ==
    /\ retryStatus = "running"
    /\ RetryStep(ScriptedCall(invocations + 1))
    /\ UNCHANGED <<maxRetries, script, parseVars, syncVars>>

(***************************************************************************)
(* fetchMeets                                                              *)
(***************************************************************************)
Array(items) == [t |-> "array", items |-> items]

\* What axios.get(API_URL) can do on one call.  A body is the decoded JSON
\* document; its `data` member is the listing array, is missing, or is
\* something that is not an array.
Payloads == {Array(upstream), Null, [t |-> "object"]}

Responses ==
    {[kind |-> "transport_error"]}
    \cup {[kind |-> "status", status |-> st] : st \in {204, 500}}
    \cup {[kind |-> "json", data |-> d] : d \in Payloads}
    \cup {[kind |-> "string", parses |-> TRUE, data |-> d] : d \in Payloads}
    \cup {[kind |-> "string", parses |-> FALSE]}

RequestFailed(resp) == resp.kind \in {"transport_error", "status"}

\* the body of the outer try block
FetchTry(resp) ==
    CASE resp.kind = "transport_error" ->            \* axios.get rejects
            [threw |-> TRUE, value |-> [t |-> "error", what |-> "transport"]]
      [] resp.kind = "status" ->                     \* status !== 200
            [threw |-> TRUE, value |-> [t |-> "error", what |-> "status"]]
      [] resp.kind = "string" ->                     \* inner try/catch
            IF resp.parses THEN [threw |-> FALSE, value |-> resp.data]
                           ELSE [threw |-> FALSE, value |-> Array(<<>>)]
      [] OTHER -> [threw |-> FALSE, value |-> resp.data]

\* the outer catch block returns [] for whatever the try block threw
fetchMeets(resp) ==
    IF FetchTry(resp).threw THEN [threw |-> FALSE, value |-> Array(<<>>)]
                            ELSE FetchTry(resp)

(***************************************************************************)
(* The store: table `meets`, unique on name                                *)
(***************************************************************************)
\* .from('meets').select('id').eq('name', name).limit(1)
StoreSelect(name, fails) ==
    IF fails THEN [error |-> TRUE, data |-> <<>>]
    ELSE [error |-> FALSE, data |-> IF name \in store THEN <<name>> ELSE <<>>]

\* .from('meets').insert([meetData]); constraint meets_name_key unique (name)
StoreInsert(name, fails) ==
    IF fails \/ name \in store THEN [error |-> TRUE] ELSE [error |-> FALSE]

\* variant: a failed query counts as a match
meetExists_ErrorMeansExists(q) ==
    IF q.error THEN TRUE
    ELSE IF Len(q.data) > 0 THEN TRUE
    ELSE FALSE

\* variant: a match is not reported
meetExists_NeverExists(q) == FALSE

meetExists(q) ==
    IF q.error THEN FALSE
    ELSE IF Len(q.data) > 0 THEN TRUE
    ELSE FALSE

(***************************************************************************)
(* syncMeets                                                               *)
(***************************************************************************)
MaxMeets == 2

Runs == {1, 2}

Sub1 == ExampleSubtitle

Sub2 == <<"06", "/", "08", "/", "2025">>

Sub3 == <<"TBD">>

Listing1 ==
    [id |-> 1, name |-> Str(<<"Spring Open">>), subtitle |-> Str(Sub1),
     address |-> Str(Join(<< <<"7051 Commerce Circle">>, <<"Pleasanton">>,
                             <<"California">>, <<USA>>, <<"94588">> >>,
                          [k \in 1..4 |-> CommaSpace]))]

Listing2 ==
    [id |-> 2, name |-> Str(<<"Fall Classic">>), subtitle |-> Str(Sub2),
     address |-> Str(Join(<< <<"Fort Worth Convention Center">>,
                             <<"1201 Houston Street">>, <<"Fort Worth">>,
                             <<"Texas">>, <<USA>>, <<"76102">> >>,
                          [k \in 1..5 |-> CommaSpace]))]

Listing3 ==
    [id |-> 3, name |-> Str(<<"Fall Classic">>), subtitle |-> Str(Sub3),
     address |-> Str(<<"8439 NE Columbia Ct", ",", ",", " ", "Portland">>)]

Listing4 ==
    [id |-> 4, name |-> Str(<<"Spring Open">>), subtitle |-> Null, address |-> Null]

ListingChoices == {Listing1, Listing2, Listing3, Listing4}

NameChoices == {m.name : m \in ListingChoices}

SyncIdle ==
    /\ run = 0 /\ pc = "off" /\ upstream = <<>> /\ fetchFailures = 0
    /\ transformedMeets = <<>> /\ idx = 0 /\ insertCount = 0 /\ skippedCount = 0
    /\ store = {} /\ storeAtStart = {} /\ ops = <<>> /\ exitCode = -1

\* the script starts: syncMeets() is called and enters retry(() => fetchMeets())
ProcessStart ==
    /\ pc = "fetch" /\ fetchFailures = 0 /\ transformedMeets = <<>> /\ idx = 0
    /\ insertCount = 0 /\ skippedCount = 0 /\ ops = <<>> /\ exitCode = -1
    /\ storeAtStart = store
    /\ RetryEnter(DefaultMaxRetries) /\ script = <<>>

\* await retry(() => fetchMeets()): one pass of retry's loop around fetchMeets
FetchWithRetry ==
    /\ pc = "fetch" /\ retryStatus = "running"
    /\ \E resp \in Responses :
          /\ RetryStep(fetchMeets(resp))
          /\ fetchFailures' = fetchFailures + (IF RequestFailed(resp) THEN 1 ELSE 0)
    /\ UNCHANGED <<maxRetries, script, parseVars>>
    /\ UNCHANGED <<run, pc, upstream, transformedMeets, idx, insertCount,
                   skippedCount, store, storeAtStart, ops, exitCode>>

\* from the return of retry to the first store query
AfterFetch ==
    /\ pc = "fetch" /\ retryStatus \in {"returned", "threw"}
    /\ IF retryStatus = "threw"
       THEN /\ pc' = "failed" /\ exitCode' = 1       \* catch: process.exit(1)
            /\ UNCHANGED <<transformedMeets, idx>>
       ELSE IF retryResult = Null \/ retryResult = Array(<<>>)
       THEN /\ pc' = "done" /\ exitCode' = 0         \* 'No meets data found'
            /\ UNCHANGED <<transformedMeets, idx>>
       ELSE IF retryResult.t # "array"
       THEN /\ pc' = "failed" /\ exitCode' = 1       \* meetsData.map throws
            /\ UNCHANGED <<transformedMeets, idx>>
       ELSE /\ transformedMeets' = transformMeetsData(retryResult.items)
            /\ idx' = 1
            /\ pc' = "check"
            /\ UNCHANGED exitCode
    /\ UNCHANGED <<run, upstream, fetchFailures, insertCount, skippedCount,
                   store, storeAtStart, ops, parseVars, retryVars>>

\* variant: every insert attempt is tallied
CountInsert_Always(n, res) == n + 1

\* insertCount++ only when the insert reported no error
CountInsert(n, res) == IF res.error THEN n ELSE n + 1

\* what `if (exists) { skippedCount++; continue; }` leaves in skippedCount
CountSkip(n, exists) == IF exists THEN n + 1 ELSE n

\* const exists = await meetExists(meet), and the skip branch
CheckExists ==
    /\ pc = "check" /\ idx <= Len(transformedMeets)
    /\ \E fails \in BOOLEAN :
          LET rec == transformedMeets[idx]
              q == StoreSelect(rec.name, fails)
              exists == meetExists(q)
          IN  /\ ops' = Append(ops, [op |-> "select", rec |-> idx, name |-> rec.name,
                                     res |-> IF q.error THEN "error"
                                             ELSE IF Len(q.data) > 0 THEN "found"
                                             ELSE "none"])
              /\ skippedCount' = CountSkip(skippedCount, exists)
              /\ IF exists THEN idx' = idx + 1 /\ pc' = "check"
                           ELSE idx' = idx /\ pc' = "insert"
    /\ UNCHANGED <<run, upstream, fetchFailures, transformedMeets, insertCount,
                   store, storeAtStart, exitCode, parseVars, retryVars>>

\* variant: an insert error aborts the run
InsertMeet_AbortOnError ==
    /\ pc = "insert"
    /\ \E fails \in BOOLEAN :
          LET rec == transformedMeets[idx]
              res == StoreInsert(rec.name, fails)
          IN  /\ ops' = Append(ops, [op |-> "insert", rec |-> idx, name |-> rec.name,
                                     res |-> IF res.error THEN "error" ELSE "ok"])
              /\ store' = IF res.error THEN store ELSE store \cup {rec.name}
              /\ insertCount' = CountInsert(insertCount, res)
              /\ IF res.error THEN pc' = "failed" /\ exitCode' = 1 /\ idx' = idx
                              ELSE pc' = "check" /\ exitCode' = exitCode /\ idx' = idx + 1
    /\ UNCHANGED <<run, upstream, fetchFailures, transformedMeets, skippedCount,
                   storeAtStart, parseVars, retryVars>>

\* the insert, its tally, and the 500 ms pause before the next record
InsertMeet ==
    /\ pc = "insert"
    /\ \E fails \in BOOLEAN :
          LET rec == transformedMeets[idx]
              res == StoreInsert(rec.name, fails)
          IN  /\ ops' = Append(ops, [op |-> "insert", rec |-> idx, name |-> rec.name,
                                     res |-> IF res.error THEN "error" ELSE "ok"])
              /\ store' = IF res.error THEN store ELSE store \cup {rec.name}
              /\ insertCount' = CountInsert(insertCount, res)
    /\ idx' = idx + 1
    /\ pc' = "check"
    /\ UNCHANGED <<run, upstream, fetchFailures, transformedMeets, skippedCount,
                   storeAtStart, exitCode, parseVars, retryVars>>

\* the loop is exhausted: 'Sync completed', syncMeets returns, exit code 0
SyncCompleted ==
    /\ pc = "check" /\ idx > Len(transformedMeets)
    /\ pc' = "done" /\ exitCode' = 0
    /\ UNCHANGED <<run, upstream, fetchFailures, transformedMeets, idx, insertCount,
                   skippedCount, store, storeAtStart, ops, parseVars, retryVars>>

\* the scheduler runs the script again: a fresh process, the same upstream
\* collection, the store as the previous run left it
NextRun ==
    /\ pc \in {"done", "failed"} /\ run + 1 \in Runs
    /\ run' = run + 1
    /\ pc' = "fetch" /\ fetchFailures' = 0 /\ transformedMeets' = <<>> /\ idx' = 0
    /\ insertCount' = 0 /\ skippedCount' = 0 /\ ops' = <<>> /\ exitCode' = -1
    /\ storeAtStart' = store
    /\ maxRetries' = DefaultMaxRetries /\ retries' = 0 /\ invocations' = 0
    /\ delays' = <<>> /\ retryStatus' = "running" /\ retryResult' = Null
    /\ UNCHANGED <<upstream, store, script, parseVars>>

(***************************************************************************)
(* Specifications                                                          *)
(***************************************************************************)
\* the script, run twice against an unchanged upstream collection
Init ==
    /\ ParseIdle
    /\ run = 1
    /\ upstream \in UNION {[1..n -> ListingChoices] : n \in 0..MaxMeets}
    /\ store \in SUBSET NameChoices
    /\ ProcessStart

Next == FetchWithRetry \/ AfterFetch \/ CheckExists \/ InsertMeet \/ SyncCompleted \/ NextRun

Spec == Init /\ [][Next]_vars

\* retry(fn, maxRetries) around a scripted operation
InitRetry ==
    /\ ParseIdle /\ SyncIdle
    /\ script \in [1..MaxRetriesArg -> BOOLEAN]
    /\ \E n \in 0..MaxRetriesArg : RetryEnter(n)

NextRetry == RetryScripted

SpecRetry == InitRetry /\ [][NextRetry]_vars

\* the parsers and the transformer applied to one drawn listing
InitParse ==
    /\ RetryIdle /\ SyncIdle
    /\ meet \in ParseInputs
    /\ ppc = "input" /\ parsedAddress = Null /\ parsedDates = Null /\ transformed = <<>>

NextParse == CallParseAddress \/ CallParseDateRange \/ CallTransform

SpecParse == InitParse /\ [][NextParse]_vars

(***************************************************************************)
(* Properties                                                              *)
(***************************************************************************)
OpIndexes(kind, result) ==
    {k \in 1..Len(ops) : ops[k].op = kind /\ ops[k].res = result}

TransformedNames == {transformMeetsData(upstream)[k].name :
                        k \in 1..Len(transformMeetsData(upstream))}

\* the listing of the upstream collection a canonical record came from
SourceOf(rec) == CHOOSE m \in ListingChoices : m.id = rec.external_id

NumericTokens == {"06", "08", "09", "2025"}

\* a date token of three numeric components, month/day/year
IsDateText(d) ==
    LET c == Split(d, <<"/">>)
    IN  Len(c) = 3 /\ \A i \in 1..3 : Len(c[i]) = 1 /\ c[i][1] \in NumericTokens

\* the subtitle is one date, or two joined by " - ", slashes escaped or not
SubtitleWellFormed(sub) ==
    /\ IsStr(sub)
    /\ LET dates == Split(ReplaceAll(sub.s, <<"\\", "/">>, <<"/">>), Dash)
       IN  Len(dates) \in {1, 2} /\ \A i \in 1..Len(dates) : IsDateText(dates[i])

C2_FetchFailureIsFatal ==
    (pc \in {"done", "failed"} /\ fetchFailures > 0 /\ fetchFailures = invocations)
        => (exitCode = 1 /\ invocations = maxRetries /\ Len(delays) = maxRetries - 1)

\* C3: retry(fn, 3) around an operation that fails twice and then succeeds
\* returns the third invocation's value after exactly three invocations and
\* exactly two waits, of 2^1 and 2^2 seconds.
C3_TwoFailuresThenSuccess ==
    (/\ Len(script) >= 3 /\ maxRetries = 3 /\ retryStatus # "running"
     /\ ~script[1] /\ ~script[2] /\ script[3])
        => /\ retryStatus = "returned"
           /\ retryResult = [t |-> "value", call |-> 3]
           /\ invocations = 3
           /\ delays = <<2000, 4000>>
           /\ delays[2] = 2 * delays[1]

C3_Witness ==
    /\ Len(script) >= 3 /\ maxRetries = 3 /\ ~script[1] /\ ~script[2] /\ script[3]
    /\ retryStatus = "returned" /\ invocations = 3

AlwaysFails == Len(script) > 0 /\ \A k \in 1..Len(script) : ~script[k]

RetryFailsProperly ==
    /\ AlwaysFails /\ retryStatus # "running"
          => /\ retryStatus = "threw"
             /\ invocations = maxRetries
             /\ Len(delays) = invocations - 1
             /\ retryResult = [t |-> "error", call |-> maxRetries]
    /\ retryStatus = "returned" => (invocations >= 1 /\ script[invocations])

C5_QueryFailureTreatedAsNotFound ==
    /\ \A k \in OpIndexes("select", "error") :
          /\ IF k < Len(ops)
             THEN ops[k + 1].op = "insert" /\ ops[k + 1].rec = ops[k].rec
             ELSE pc = "insert" /\ idx = ops[k].rec
          /\ exitCode # 1
    /\ skippedCount = Cardinality(OpIndexes("select", "found"))

C5_Witness ==
    \E k \in OpIndexes("select", "error") :
        /\ k + 2 <= Len(ops)
        /\ ops[k + 1].op = "insert" /\ ops[k + 1].res = "ok"
        /\ ops[k + 2].op = "select" /\ ops[k + 2].rec = ops[k].rec + 1
        /\ skippedCount = 0

\* C6: insert failures are contained: a failed insert is not counted, never
\* ends the run with a failure, and when the run completes every record of
\* the transformed sequence has had its existence check, in order, and its
\* insert unless found, and the exit code is 0.
C6_InsertFailuresContained ==
    /\ insertCount = Cardinality(OpIndexes("insert", "ok"))
    /\ OpIndexes("insert", "error") # {} => exitCode # 1
    /\ pc \in {"check", "insert"} => exitCode = -1
    /\ pc = "done" =>
          /\ exitCode = 0
          /\ LET checks == SelectSeq(ops, LAMBDA o : o.op = "select")
             IN  /\ Len(checks) = Len(transformedMeets)
                 /\ \A k \in 1..Len(checks) : checks[k].rec = k
          /\ \A k \in 1..Len(ops) :
                (ops[k].op = "select" /\ ops[k].res # "found")
                    => (k < Len(ops) /\ ops[k + 1].op = "insert"
                        /\ ops[k + 1].rec = ops[k].rec)

C6_Witness ==
    /\ pc = "done" /\ exitCode = 0 /\ Len(transformedMeets) = 2
    /\ \E k \in OpIndexes("insert", "error") :
          /\ ops[k].rec = 1 /\ ops[k - 1].res = "none"
          /\ k + 2 <= Len(ops) /\ ops[k + 2].op = "insert" /\ ops[k + 2].res = "ok"
    /\ insertCount = 1

\* C7 as stated: every record for which a store operation is issued comes
\* from a listing whose subtitle is a well-formed date range (one or two
\* dates of three numeric components).
C7_OnlyParsedDatesReachSyncer ==
    \A k \in 1..Len(ops) :
        SubtitleWellFormed(SourceOf(transformedMeets[ops[k].rec]).subtitle)

\* C8 as stated: the venue_state of every record transformMeetsData produces
\* is a non-empty string.
C8_VenueStateNeverEmpty ==
    ppc = "done" => \A k \in 1..Len(transformed) : Truthy(transformed[k].venue_state)

InputParts == Split(meet.address.s, CommaSpace)

\* C9 as stated: for an address of fewer than 4 parts parseAddress returns
\* venueName empty, street the original input, city/state/zip "Unknown".
C9_DegradedKeepsOriginal ==
    (ppc # "input" /\ IsStr(meet.address) /\ Len(InputParts) < 4)
        => parsedAddress = [venueName |-> Str(<<>>), street |-> meet.address,
                            city |-> Unknown, state |-> Unknown, zip |-> Unknown]

HasDoubledComma(s) ==
    \E i \in 1..Len(s) : \E j \in (i + 1)..Len(s) :
        /\ s[i] = "," /\ s[j] = ","
        /\ \A k \in (i + 1)..(j - 1) : s[k] = " "

RECURSIVE DropMatches(_)
DropMatches(s) ==
    IF ~HasDoubledComma(s) THEN s
    ELSE LET i == CHOOSE i \in 1..Len(s) :
                    /\ s[i] = ","
                    /\ \E j \in (i + 1)..Len(s) :
                          s[j] = "," /\ \A k \in (i + 1)..(j - 1) : s[k] = " "
                    /\ \A h \in 1..(i - 1) :
                          ~(s[h] = "," /\ \E j \in (h + 1)..Len(s) :
                               s[j] = "," /\ \A k \in (h + 1)..(j - 1) : s[k] = " ")
             j == CHOOSE j \in (i + 1)..Len(s) :
                    s[j] = "," /\ \A k \in (i + 1)..(j - 1) : s[k] = " "
         IN  SubSeq(s, 1, i) \o DropMatches(SubSeq(s, j + 1, Len(s)))

\* C9, amended: parseAddress always returns a record; for a string of fewer
\* than 4 parts it returns venueName empty, city/state/zip "Unknown" and
\* street the input with each comma-whitespace-comma run replaced by one
\* comma, which is the original input exactly when it holds no such run; for
\* a non-string it returns the same record with street the input itself.
C9_DegradedKeepsCollapsed ==
    ppc # "input" =>
        /\ DOMAIN parsedAddress = {"venueName", "street", "city", "state", "zip"}
        /\ (IsStr(meet.address) /\ Len(InputParts) < 4) =>
              /\ parsedAddress = [venueName |-> Str(<<>>),
                                  street |-> Str(DropMatches(meet.address.s)),
                                  city |-> Unknown, state |-> Unknown, zip |-> Unknown]
              /\ (parsedAddress.street = meet.address) = ~HasDoubledComma(meet.address.s)
        /\ ~IsStr(meet.address) =>
              parsedAddress = [venueName |-> Str(<<>>), street |-> meet.address,
                               city |-> Unknown, state |-> Unknown, zip |-> Unknown]

C9_Witness ==
    /\ ppc # "input" /\ IsStr(meet.address) /\ Len(InputParts) < 4
    /\ HasDoubledComma(meet.address.s)
    /\ parsedAddress.street # meet.address /\ parsedAddress.city = Unknown

\* C10: the store operations of a run are strictly sequential: the first is
\* the check of record 1; a check of a later record follows only the insert
\* of the record before it or that record's check having found a match; an
\* insert directly follows the check of the same record, which did not find
\* a match; no record is inserted twice; and the skipped count is the number
\* of checks that found a match.
C10_SequentialCheckThenInsert ==
    /\ \A k \in 1..Len(ops) :
          IF ops[k].op = "insert"
          THEN /\ k > 1 /\ ops[k - 1].op = "select"
               /\ ops[k - 1].rec = ops[k].rec /\ ops[k - 1].res # "found"
          ELSE IF k = 1 THEN ops[k].rec = 1
               ELSE /\ ops[k].rec = ops[k - 1].rec + 1
                    /\ (ops[k - 1].op = "insert" \/ ops[k - 1].res = "found")
    /\ \A j, k \in 1..Len(ops) :
          (ops[j].op = "insert" /\ ops[k].op = "insert" /\ ops[j].rec = ops[k].rec)
              => j = k
    /\ skippedCount = Cardinality(OpIndexes("select", "found"))

C10_Witness ==
    /\ Len(ops) = 3 /\ skippedCount = 1 /\ pc = "done"
    /\ ops[1].op = "select" /\ ops[1].res = "found"
    /\ ops[2].op = "select" /\ ops[2].rec = 2 /\ ops[2].res = "none"
    /\ ops[3].op = "insert" /\ ops[3].rec = 2

====
